---- MODULE Spec2Model ----
(***************************************************************************)
(* Model of dashboard.py: the record normalizer get_processed_data (with   *)
(* its helpers extract_from_json and get_age) and the sidebar filter       *)
(* draw_sidebar.                                                           *)
(*                                                                         *)
(* Numbers.  A pandas cell holding a number is a fraction [n, d] in lowest  *)
(* terms, d > 0; d = 0 is a float that is no number: [0, 0] is NaN (a      *)
(* missing value) and [1, 0] / [-1, 0] are +inf / -inf.  Python objects    *)
(* read from the JSON payload are tagged records [t, i, s].  Strings that  *)
(* the code slices or parses are sequences of one-character strings.       *)
(***************************************************************************)
EXTENDS Integers, Sequences, FiniteSets, TLC

VARIABLES
    clock,          \* the wall-clock year, datetime.now().year
    CURRENT_YEAR,   \* module constant of line 22
    db,             \* data/nemostore.db: NoFile, or the rows of table stores
    cache,          \* the st.cache_data entry of get_processed_data
    ret,            \* what the last call of get_processed_data returned
    call_year,      \* history: the wall-clock year when that call was made
    sdf,            \* the frame handed to draw_sidebar
    widgets,        \* the values the sidebar widgets returned
    side            \* outcome of draw_sidebar: status and the filtered frame

vars == <<clock, CURRENT_YEAR, db, cache, ret, call_year, sdf, widgets, side>>

normVars == <<clock, CURRENT_YEAR, db, cache, ret, call_year>>
sideVars == <<sdf, widgets, side>>

---------------------------------------------------------------------------
(* Bounds of the model *)

MaxRows == 2        \* longest batch in table stores
MaxSideRows == 2    \* longest frame handed to the sidebar
FirstYear == 2024   \* wall-clock year when the module is loaded
MaxTicks == 1       \* how many times the wall-clock year advances

(* Program constants *)

WON_PER_MANWON == 10000     \* the factor of lines 55-59
PY_NUM == 33058             \* 3.3058 of line 62, as PY_NUM / PY_DEN
PY_DEN == 10000

---------------------------------------------------------------------------
(* Numbers *)

Num(i) == [n |-> i, d |-> 1]
Frac(a, b) == [n |-> a, d |-> b]
NaN == [n |-> 0, d |-> 0]

IsNumber(x) == x.d > 0
Sign(i) == IF i > 0 THEN 1 ELSE IF i < 0 THEN -1 ELSE 0

REq(a, b) == IsNumber(a) /\ IsNumber(b) /\ a.n * b.d = b.n * a.d
RLeq(a, b) == IsNumber(a) /\ IsNumber(b) /\ a.n * b.d <= b.n * a.d
RGtZero(a) == IsNumber(a) /\ a.n > 0
IsInteger(a) == IsNumber(a) /\ a.n % a.d = 0

RECURSIVE Gcd(_, _)
Gcd(a, b) == IF b = 0 THEN a ELSE Gcd(b, a % b)

Abs(i) == IF i < 0 THEN -i ELSE i

\* the fraction n / d, d > 0, in lowest terms
Lowest(n, d) ==
    LET g == Gcd(Abs(n), d) IN [n |-> n \div g, d |-> d \div g]

\* x * k for an integer k; NaN stays NaN
RTimes(a, k) == IF IsNumber(a) THEN Lowest(a.n * k, a.d) ELSE NaN

RPlus(a, b) ==
    IF IsNumber(a) /\ IsNumber(b)
    THEN Lowest(a.n * b.d + b.n * a.d, a.d * b.d)
    ELSE NaN

\* true division of numpy scalars: x / 0 is +-inf, 0 / 0 is NaN
RDiv(a, b) ==
    IF ~(IsNumber(a) /\ IsNumber(b)) THEN NaN
    ELSE IF b.n = 0 THEN [n |-> Sign(a.n), d |-> 0]
    ELSE Lowest(a.n * b.d * Sign(b.n), a.d * b.n * Sign(b.n))

\* int(x): truncation toward zero; defined for numbers only
Trunc(a) ==
    IF a.n >= 0 THEN Num(a.n \div a.d) ELSE Num(-((-a.n) \div a.d))

---------------------------------------------------------------------------
(* Python objects of the payload *)

PyAbsent == [t |-> "absent", i |-> 0, s |-> <<>>]   \* key not in the dict
PyNone == [t |-> "none", i |-> 0, s |-> <<>>]
PyInt(i) == [t |-> "int", i |-> i, s |-> <<>>]
PyStr(s) == [t |-> "str", i |-> 0, s |-> s]

NA == <<"N", "/", "A">>

Digits == {"0", "1", "2", "3", "4", "5", "6", "7", "8", "9"}

DigitVal(c) ==
    CASE c = "0" -> 0 [] c = "1" -> 1 [] c = "2" -> 2 [] c = "3" -> 3
      [] c = "4" -> 4 [] c = "5" -> 5 [] c = "6" -> 6 [] c = "7" -> 7
      [] c = "8" -> 8 [] c = "9" -> 9


RECURSIVE DecimalValue(_)
DecimalValue(ds) ==
    IF ds = <<>> THEN 0
    ELSE 10 * DecimalValue(SubSeq(ds, 1, Len(ds) - 1)) + DigitVal(ds[Len(ds)])

\* s[:k] of a Python string
Prefix(s, k) == SubSeq(s, 1, IF Len(s) < k THEN Len(s) ELSE k)

\* int(s) for a string s: an optional sign and then one or more digits;
\* anything else is a ValueError (ok = FALSE)
IntOfStr(s) ==
    LET signed == Len(s) > 0 /\ s[1] \in {"-", "+"}
        body == IF signed THEN Tail(s) ELSE s
        ok == Len(body) > 0 /\ \A k \in 1..Len(body) : body[k] \in Digits
    IN  [ok |-> ok,
         val |-> IF ok
                 THEN (IF signed /\ s[1] = "-" THEN -1 ELSE 1) * DecimalValue(body)
                 ELSE 0]

---------------------------------------------------------------------------
(* The payload: json.loads and dict.get *)

\* raw_json as the document it denotes: text that is no JSON ("malformed"),
\* JSON that is no object ("nonobject": a list, a number, null) or an object
\* with the four keys the code reads, each absent or bound to a value
Doc(kind, ap, mf, cd, gf) ==
    [kind |-> kind, areaPrice |-> ap, maintenanceFee |-> mf,
     completionConfirmedDateUtc |-> cd, groundFloor |-> gf]

\* json.loads: JSONDecodeError on text that is no JSON
JsonLoads(raw) == [raised |-> raw.kind = "malformed", data |-> raw]

\* data.get(key, default): AttributeError when data is no dict; the default
\* for an absent key; the bound value, None included, for a present key
DictGet(data, key, default) ==
    [raised |-> data.kind # "object",
     val |-> IF data.kind = "object" /\ data[key].t # "absent"
             THEN data[key] ELSE default]

ExtractionDefaults ==
    [area_price_raw |-> PyInt(0), maint_fee_raw |-> PyInt(0),
     approval_date |-> PyStr(NA), ground_floor_raw |-> PyInt(0)]

\* lines 41-47, the body of the try block
ExtractTry(row) ==
    LET parsed == JsonLoads(row.raw_json)
        ap == DictGet(parsed.data, "areaPrice", PyInt(0))
        mf == DictGet(parsed.data, "maintenanceFee", PyInt(0))
        cd == DictGet(parsed.data, "completionConfirmedDateUtc", PyStr(NA))
        gf == DictGet(parsed.data, "groundFloor", PyInt(0))
    IN  [raised |-> parsed.raised \/ ap.raised \/ mf.raised \/ cd.raised \/ gf.raised,
         series |-> [area_price_raw |-> ap.val, maint_fee_raw |-> mf.val,
                     approval_date |-> cd.val, ground_floor_raw |-> gf.val]]

\* mutant: no except clause, the error leaves the function
extract_from_json_no_except(row) == ExtractTry(row)

\* lines 39-49: try the extraction, on any exception return the defaults
extract_from_json(row) ==
    LET t == ExtractTry(row)
    IN  IF t.raised
        THEN [raised |-> FALSE, series |-> ExtractionDefaults]
        ELSE t

---------------------------------------------------------------------------
(* Column arithmetic *)

\* a cell of an extracted column as pandas computes with it: an int is
\* that number, a None is a null entry and arithmetic on it gives NaN
CellNumber(c) == IF c.t = "int" THEN Num(c.i) ELSE NaN

\* lines 55-59: column * 10000
to_won(x) == RTimes(x, WON_PER_MANWON)

\* line 62
size_py(r) == RDiv(r.size, Frac(PY_NUM, PY_DEN))

\* mutant: the sum of the raw values, not of the converted ones
total_initial_cost_raw(r) == RPlus(r.deposit, r.premium)

\* line 65
total_initial_cost(r) == RPlus(r.deposit_won, r.premium_won)

\* line 66
monthly_total_cost(r) == RPlus(r.monthly_rent_won, r.maintenance_fee_won)

\* mutant: the guard lets size = 0 through
rent_per_m2_unguarded(r) ==
    IF RLeq(Num(0), r.size) THEN RDiv(r.monthly_rent_won, r.size) ELSE Num(0)

\* line 69
rent_per_m2(r) ==
    IF RGtZero(r.size) THEN RDiv(r.monthly_rent_won, r.size) ELSE Num(0)

\* line 70
rent_per_py(r) ==
    IF RGtZero(r.size_py) THEN RDiv(r.monthly_rent_won, r.size_py) ELSE Num(0)

\* line 71
premium_ratio(r) ==
    IF RGtZero(r.deposit_won) THEN RDiv(r.premium_won, r.deposit_won) ELSE Num(0)

\* Python truth value of "not date_str"
Falsy(c) ==
    \/ c.t = "none"
    \/ c.t = "str" /\ c.s = <<>>
    \/ c.t = "int" /\ c.i = 0

\* mutant: the reference year is read from the clock when the age is computed
get_age_clock(date_str) ==
    IF (date_str.t = "str" /\ date_str.s = NA) \/ Falsy(date_str) THEN Num(0)
    ELSE IF date_str.t # "str" THEN Num(0)
    ELSE LET year == IntOfStr(Prefix(date_str.s, 4))
         IN  IF year.ok THEN Num(clock - year.val) ELSE Num(0)

\* lines 74-80.  date_str[:4] of a value that is no string is a TypeError,
\* int() of a string that is no integer literal a ValueError; both are caught
get_age(date_str) ==
    IF (date_str.t = "str" /\ date_str.s = NA) \/ Falsy(date_str) THEN Num(0)
    ELSE IF date_str.t # "str" THEN Num(0)
    ELSE LET year == IntOfStr(Prefix(date_str.s, 4))
         IN  IF year.ok THEN Num(CURRENT_YEAR - year.val) ELSE Num(0)

DISTRICT == "Gangnam-gu"    \* the literal of line 84

\* lines 51-84 for one row: every column operation of the function is
\* element-wise, so the frame is derived row by row
DeriveRow(row, series) ==
    LET r1 == row @@ series
        r2 == r1 @@ [deposit_won |-> to_won(r1.deposit),
                     monthly_rent_won |-> to_won(r1.monthlyRent),
                     premium_won |-> to_won(r1.premium),
                     maintenance_fee_won |-> to_won(CellNumber(r1.maint_fee_raw)),
                     area_price_won_per_m2 |-> to_won(CellNumber(r1.area_price_raw))]
        r3 == r2 @@ [size_py |-> size_py(r2)]
        r4 == r3 @@ [total_initial_cost |-> total_initial_cost(r3),
                     monthly_total_cost |-> monthly_total_cost(r3)]
        r5 == r4 @@ [rent_per_m2 |-> rent_per_m2(r4)]
        r6 == r5 @@ [rent_per_py |-> rent_per_py(r5)]
        r7 == r6 @@ [premium_ratio |-> premium_ratio(r6)]
    IN  r7 @@ [building_age |-> get_age(r7.approval_date),
               district |-> DISTRICT]

\* lines 51-86 for a non-empty frame
Process(rows) ==
    LET extraction == [k \in 1..Len(rows) |-> extract_from_json(rows[k])]
    IN  IF \E k \in 1..Len(rows) : extraction[k].raised
        THEN [path |-> "raised", df |-> <<>>]
        ELSE [path |-> "line86",
              df |-> [k \in 1..Len(rows) |-> DeriveRow(rows[k], extraction[k].series)]]

NoFile == [exists |-> FALSE, rows |-> <<>>]     \* DB_PATH does not exist
Table(rows) == [exists |-> TRUE, rows |-> rows]
NoEntry == [path |-> "no entry", df |-> <<>>]
NotCalled == [path |-> "not called", df |-> <<>>]

\* lines 28-86, the function under the cache decorator
Body(store) ==
    IF ~store.exists THEN [path |-> "line29", df |-> <<>>]
    ELSE IF store.rows = <<>> THEN [path |-> "line36", df |-> <<>>]
    ELSE Process(store.rows)

---------------------------------------------------------------------------
(* Inputs *)

D(str) == PyStr(str)

DateCells ==
    { PyAbsent, PyNone, PyInt(2015),
      D(NA), D(<<>>),
      D(<<"2", "0", "1", "5", "-", "0", "3">>),
      D(<<"1", "9", "9", "9">>),
      D(<<"1", "9", "9">>),
      D(<<"2", "0">>),
      D(<<"a", "b", "c", "d">>),
      D(<<"2", "0", "x", "5">>),
      D(<<"a", "b">>),
      D(<<"-", "1", "2", "3">>) }

GoodDate == D(<<"2", "0", "1", "5", "-", "0", "3">>)

BaseDoc == Doc("object", PyInt(5), PyInt(4), GoodDate, PyInt(2))

Docs ==
    { Doc("malformed", PyAbsent, PyAbsent, PyAbsent, PyAbsent),
      Doc("nonobject", PyAbsent, PyAbsent, PyAbsent, PyAbsent) }
    \cup { Doc("object", ap, mf, GoodDate, PyInt(2)) :
             ap \in {PyAbsent, PyNone, PyInt(5)}, mf \in {PyAbsent, PyNone, PyInt(4)} }
    \cup { Doc("object", PyInt(5), PyInt(4), cd, PyInt(2)) : cd \in DateCells }
    \cup { Doc("object", PyInt(5), PyInt(4), GoodDate, gf) : gf \in {PyAbsent, PyNone} }

RawRow(cat, fl, dep, rent, prem, sz, raw) ==
    [businessLargeCodeName |-> cat, floor |-> fl, deposit |-> dep,
     monthlyRent |-> rent, premium |-> prem, size |-> sz, raw_json |-> raw]

\* the rows of table stores: the payload varies on a row of fixed columns,
\* the columns vary on a row of fixed payload
StoreRows ==
    { RawRow("A", Num(1), Num(2), Num(3), Num(1), Num(2), doc) : doc \in Docs }
    \cup { RawRow("A", Num(1), dep, Num(3), prem, Num(2), BaseDoc) :
             dep \in {Num(0), Num(2)}, prem \in {Num(0), Num(1)} }
    \cup { RawRow("A", Num(1), Num(2), rent, Num(1), sz, BaseDoc) :
             rent \in {Num(0), Num(3)}, sz \in {Num(0), Frac(3, 2), Num(2)} }

SeqsUpTo(S, n) == UNION { [1..k -> S] : k \in 0..n }

Stores == {NoFile} \cup { Table(rows) : rows \in SeqsUpTo(StoreRows, MaxRows) }

---------------------------------------------------------------------------
(* The normalizer as a state machine *)

\* the year passes
Tick ==
    /\ clock < FirstYear + MaxTicks
    /\ clock' = clock + 1
    /\ UNCHANGED <<CURRENT_YEAR, db, cache, ret, call_year, sideVars>>

\* lines 26-86: a call of get_processed_data.  st.cache_data keeps the
\* value the function returned and hands it out again on the next call
get_processed_data ==
    /\ call_year' = clock
    /\ IF cache = NoEntry
       THEN /\ ret' = Body(db)
            /\ cache' = IF ret'.path = "raised" THEN NoEntry ELSE ret'
       ELSE /\ ret' = cache
            /\ cache' = cache
    /\ UNCHANGED <<clock, CURRENT_YEAR, db, sideVars>>

SideIdle ==
    /\ sdf = <<>>
    /\ widgets = <<>>
    /\ side = [status |-> "not called", f_df |-> <<>>]

\* the module is loaded: line 22 has sampled the clock
InitNormalizer ==
    /\ clock = FirstYear
    /\ CURRENT_YEAR = clock
    /\ db \in Stores
    /\ cache = NoEntry
    /\ ret = NotCalled
    /\ call_year = clock
    /\ SideIdle

NextNormalizer == Tick \/ get_processed_data

SpecNormalizer == InitNormalizer /\ [][NextNormalizer]_vars

---------------------------------------------------------------------------
(* The sidebar filter *)

\* Series.max(): NaN for an empty column
ColumnMax(df, col) ==
    IF df = <<>> THEN NaN
    ELSE LET k == CHOOSE k \in 1..Len(df) :
                      \A j \in 1..Len(df) : RLeq(df[j][col], df[k][col])
         IN  df[k][col]

\* int(x): ValueError for NaN, else the truncation
IntOf(x) == [raised |-> ~IsNumber(x), val |-> IF IsNumber(x) THEN Trunc(x) ELSE NaN]

\* float(x)
FloatOf(x) == x

\* line 118, as the set of the names
all_cats(df) == { df[k].businessLargeCodeName : k \in 1..Len(df) }

\* mutant: the default stops one short of the maximum
default_range_short(max) == <<Num(0), RPlus(max, Num(-1))>>

\* the default value of a range slider, the third argument of lines 124-135
default_range(max) == <<Num(0), max>>

\* what a range slider may hand back: its default, or a pair set by the
\* presentation layer, a degenerate one (min > max) included
SliderValues(default) ==
    {default, <<Num(1), Num(1)>>, <<Num(1), Num(0)>>}

\* mutant: the upper bound is excluded
between_exclusive(x, left, right) == RLeq(left, x) /\ RLeq(x, right) /\ ~REq(x, right)

\* mutant: the bounds are put in order first
between_sorted(x, left, right) ==
    IF RLeq(left, right) THEN RLeq(left, x) /\ RLeq(x, right)
    ELSE RLeq(right, x) /\ RLeq(x, left)

\* Series.between(left, right), inclusive on both sides
between(x, left, right) == RLeq(left, x) /\ RLeq(x, right)

\* Series.isin(values)
isin(x, values) == x \in values

\* lines 141-152: the boolean mask, then the first-floor selection
filter_rows(df, w) ==
    LET Mask(r) ==
            /\ isin(r.businessLargeCodeName, w.cats)
            /\ between(r.deposit, w.dep_range[1], w.dep_range[2])
            /\ between(r.monthlyRent, w.rent_range[1], w.rent_range[2])
            /\ between(r.premium, w.prem_range[1], w.prem_range[2])
            /\ between(r.size, w.size_range[1], w.size_range[2])
        FirstFloor(r) == REq(r.floor, Num(1))
        f_df == SelectSeq(df, Mask)
    IN  IF w.is_first_floor THEN SelectSeq(f_df, FirstFloor) ELSE f_df

\* lines 123-135: the slider maxima computed from the frame
dep_max(df) == IntOf(ColumnMax(df, "deposit"))
rent_max(df) == IntOf(ColumnMax(df, "monthlyRent"))
prem_max(df) == IntOf(ColumnMax(df, "premium"))
size_max(df) == FloatOf(ColumnMax(df, "size"))

\* the default positions of the four sliders, lines 124, 127, 130 and 135
sidebar_defaults(df) ==
    [dep_range |-> default_range(dep_max(df).val),
     rent_range |-> default_range(rent_max(df).val),
     prem_range |-> default_range(prem_max(df).val),
     size_range |-> default_range(size_max(df))]

NoWidgets == <<>>

\* lines 114-152.  The multiselect hands back any selection of all_cats
\* (by default its first three names), each slider a pair, the checkbox a
\* boolean; int() of the maximum of an empty column raises ValueError
draw_sidebar ==
    /\ side.status = "not called"
    /\ IF dep_max(sdf).raised \/ rent_max(sdf).raised \/ prem_max(sdf).raised
       THEN /\ side' = [status |-> "ValueError", f_df |-> <<>>]
            /\ widgets' = NoWidgets
       ELSE \E cats \in SUBSET all_cats(sdf),
               dep_range \in SliderValues(sidebar_defaults(sdf).dep_range),
               rent_range \in SliderValues(sidebar_defaults(sdf).rent_range),
               prem_range \in SliderValues(sidebar_defaults(sdf).prem_range),
               size_range \in SliderValues(sidebar_defaults(sdf).size_range),
               is_first_floor \in BOOLEAN :
                /\ widgets' = [cats |-> cats, dep_range |-> dep_range,
                               rent_range |-> rent_range, prem_range |-> prem_range,
                               size_range |-> size_range,
                               is_first_floor |-> is_first_floor]
                /\ side' = [status |-> "returned",
                            f_df |-> filter_rows(sdf, widgets')]
    /\ UNCHANGED <<sdf, normVars>>

\* the rows of the frames handed to the sidebar: one column at a time
\* differs from a row that every range of SliderValues lets through
SideRows ==
    { RawRow(cat, fl, Num(1), Num(1), Num(1), Num(1), BaseDoc) :
        cat \in {"A", "B"}, fl \in {Num(1), Num(2)} }
    \cup { RawRow("A", Num(1), dep, Num(1), Num(1), Num(1), BaseDoc) :
             dep \in {Num(0), Frac(3, 2)} }
    \cup { RawRow("A", Num(1), Num(1), Num(0), Num(1), Num(1), BaseDoc),
           RawRow("A", Num(1), Num(1), Num(1), Num(0), Num(1), BaseDoc) }
    \cup { RawRow("A", Num(1), Num(1), Num(1), Num(1), sz, BaseDoc) :
             sz \in {Num(0), Frac(3, 2)} }

\* draw_sidebar is handed a frame that get_processed_data returned, the
\* empty one included (main, line 262, keeps the empty frame away from it)
InitSidebar ==
    /\ clock = FirstYear
    /\ CURRENT_YEAR = clock
    /\ db \in { Table(rows) : rows \in SeqsUpTo(SideRows, MaxSideRows) }
    /\ ret = Body(db)
    /\ cache = ret
    /\ call_year = clock
    /\ sdf = ret.df
    /\ widgets = NoWidgets
    /\ side = [status |-> "not called", f_df |-> <<>>]

NextSidebar == draw_sidebar

SpecSidebar == InitSidebar /\ [][NextSidebar]_vars

---------------------------------------------------------------------------
(* Properties of the sidebar filter, under SpecSidebar *)

Returned == side.status = "returned"

InRange(x, range) == RLeq(range[1], x) /\ RLeq(x, range[2])

\* the conjunction a record has to satisfy under the predicate set w
Satisfies(r, w) ==
    /\ r.businessLargeCodeName \in w.cats
    /\ InRange(r.deposit, w.dep_range)
    /\ InRange(r.monthlyRent, w.rent_range)
    /\ InRange(r.premium, w.prem_range)
    /\ InRange(r.size, w.size_range)
    /\ (w.is_first_floor => r.floor = Num(1))

Kept(df, w) == LET Test(r) == Satisfies(r, w) IN SelectSeq(df, Test)

\* C1: the filter returns exactly the records whose category is selected,
\* whose deposit, monthlyRent, premium and size lie within their ranges,
\* bounds included, and whose floor is 1 when first_floor_only is set; in
\* the order of the input; nothing for an empty category set
C1_FilterIsConjunction ==
    Returned =>
        /\ side.f_df = Kept(sdf, widgets)
        /\ \A k \in 1..Len(side.f_df) : Satisfies(side.f_df[k], widgets)
        /\ (widgets.cats = {} => side.f_df = <<>>)

\* C1 witness: of two different records the first fails a range test only
\* and the second, on the upper bound of its range, is the whole result
C1_Witness ==
    /\ Returned
    /\ Len(sdf) = 2
    /\ sdf[1] # sdf[2]
    /\ sdf[1].businessLargeCodeName \in widgets.cats
    /\ sdf[1].floor = Num(1)
    /\ widgets.is_first_floor
    /\ REq(sdf[2].premium, widgets.prem_range[2])
    /\ side.f_df = <<sdf[2]>>

Degenerate(range) == ~RLeq(range[1], range[2])

AnyDegenerate(w) ==
    \/ Degenerate(w.dep_range)
    \/ Degenerate(w.rent_range)
    \/ Degenerate(w.prem_range)
    \/ Degenerate(w.size_range)

\* C6: with min > max on any of the four ranges the filter returns the
\* empty sequence, whatever the frame and the other predicates
C6_DegenerateRangeIsEmpty ==
    (Returned /\ AnyDegenerate(widgets)) => side.f_df = <<>>

\* C6 witness: only the size range is degenerate and some record passes
\* every other test
C6_Witness ==
    /\ Returned
    /\ Degenerate(widgets.size_range)
    /\ ~Degenerate(widgets.dep_range)
    /\ ~Degenerate(widgets.rent_range)
    /\ ~Degenerate(widgets.prem_range)
    /\ \E k \in 1..Len(sdf) :
          Satisfies(sdf[k], [widgets EXCEPT !.size_range = <<Num(0), sdf[k].size>>])
    /\ side.f_df = <<>>

NonNegativeInteger(x) == IsInteger(x) /\ x.n >= 0

LargestOf(df, col) ==
    CHOOSE m \in { df[k][col] : k \in 1..Len(df) } :
        \A k \in 1..Len(df) : RLeq(df[k][col], m)

\* the default positions as the claim gives them
ClaimedDefaults(df) ==
    [dep_range |-> <<Num(0), LargestOf(df, "deposit")>>,
     rent_range |-> <<Num(0), LargestOf(df, "monthlyRent")>>,
     prem_range |-> <<Num(0), LargestOf(df, "premium")>>,
     size_range |-> <<Num(0), LargestOf(df, "size")>>]

\* every slider at its default position, the box unchecked
AtDefaults(df, w) ==
    /\ w.dep_range = sidebar_defaults(df).dep_range
    /\ w.rent_range = sidebar_defaults(df).rent_range
    /\ w.prem_range = sidebar_defaults(df).prem_range
    /\ w.size_range = sidebar_defaults(df).size_range
    /\ ~w.is_first_floor

InSelectedCategory(df, w) ==
    LET Test(r) == r.businessLargeCodeName \in w.cats IN SelectSeq(df, Test)

\* C10: on a non-empty frame whose deposit, monthlyRent and premium are
\* non-negative integers and whose size is non-negative, the default slider
\* positions are (0, largest value of the column), and with the sliders
\* there and the box unchecked the result is the records of the selected
\* categories, in the original order
C10_DefaultsExcludeNothing ==
    ( /\ sdf # <<>>
      /\ \A k \in 1..Len(sdf) :
            /\ NonNegativeInteger(sdf[k].deposit)
            /\ NonNegativeInteger(sdf[k].monthlyRent)
            /\ NonNegativeInteger(sdf[k].premium)
            /\ RLeq(Num(0), sdf[k].size) )
    => /\ sidebar_defaults(sdf) = ClaimedDefaults(sdf)
       /\ (Returned /\ AtDefaults(sdf, widgets)) =>
             side.f_df = InSelectedCategory(sdf, widgets)

\* C10 witness: defaults on two records of different categories, sizes and
\* deposits, one category selected
C10_Witness ==
    /\ Returned
    /\ Len(sdf) = 2
    /\ \A k \in 1..2 : NonNegativeInteger(sdf[k].deposit)
    /\ AtDefaults(sdf, widgets)
    /\ sdf[1].businessLargeCodeName # sdf[2].businessLargeCodeName
    /\ widgets.cats = {sdf[2].businessLargeCodeName}
    /\ side.f_df = <<sdf[2]>>

\* C7: empty input gives empty output and no error: the normalizer returns
\* the empty frame before any derivation, the filter returns the empty frame
C7_EmptyInputIsNotAFailure ==
    /\ (ret.path # "not called" /\ db.rows = <<>>) =>
          (ret.df = <<>> /\ ret.path \in {"line29", "line36"})
    /\ (side.status # "not called" /\ sdf = <<>>) =>
          (Returned /\ side.f_df = <<>>)

---------------------------------------------------------------------------
(* Properties of the normalizer, under SpecNormalizer *)

Normalized == ret.path = "line86"

Rows == 1..Len(db.rows)

BadPayload(k) == db.rows[k].raw_json.kind # "object"

IsZero(x) == IsNumber(x) /\ x.n = 0

RemoveAt(q, k) == SubSeq(q, 1, k - 1) \o SubSeq(q, k + 1, Len(q))

\* C2: in a non-empty batch a row whose payload is no JSON, or JSON that
\* is no object, gets the default auxiliary fields and the derived fields
\* 0 that follow from them; the call does not raise; and every other row
\* gets the fields it gets in the batch without the bad row
C2_BadPayloadDefaults ==
    (ret.path # "not called" /\ db.exists /\ db.rows # <<>>) =>
        /\ Normalized
        /\ Len(ret.df) = Len(db.rows)
        /\ \A k \in Rows : BadPayload(k) =>
              /\ ret.df[k].area_price_raw = PyInt(0)
              /\ ret.df[k].maint_fee_raw = PyInt(0)
              /\ ret.df[k].approval_date = PyStr(NA)
              /\ ret.df[k].ground_floor_raw = PyInt(0)
              /\ IsZero(ret.df[k].building_age)
              /\ IsZero(ret.df[k].area_price_won_per_m2)
              /\ IsZero(ret.df[k].maintenance_fee_won)
              /\ LET rest == Body(Table(RemoveAt(db.rows, k)))
                 IN  Len(db.rows) > 1 =>
                        /\ rest.path = "line86"
                        /\ rest.df = RemoveAt(ret.df, k)

\* C2 witness: a batch of a row with a malformed payload and a row with a
\* well-formed one that sets its own fee and date
C2_Witness ==
    /\ Normalized
    /\ Len(db.rows) = 2
    /\ db.rows[1].raw_json.kind = "malformed"
    /\ db.rows[2].raw_json.kind = "object"
    /\ IsZero(ret.df[1].maintenance_fee_won)
    /\ ret.df[2].maintenance_fee_won = Num(40000)
    /\ ret.df[2].building_age = Num(CURRENT_YEAR - 2015)

DerivedNumbers ==
    {"deposit_won", "monthly_rent_won", "premium_won", "maintenance_fee_won",
     "area_price_won_per_m2", "size_py", "total_initial_cost",
     "monthly_total_cost", "rent_per_m2", "rent_per_py", "premium_ratio",
     "building_age"}

\* C3: after normalization of a non-empty batch every derived field of
\* every record is a number or a string, never null or missing
C3_NoMissingDerivedField ==
    Normalized =>
        \A k \in 1..Len(ret.df) :
            /\ \A f \in DerivedNumbers : IsNumber(ret.df[k][f])
            /\ ret.df[k].district = DISTRICT

AllDigits(q) == \A k \in 1..Len(q) : q[k] \in Digits

\* the date has a 4-digit leading year
HasLeadingYear(c) == c.t = "str" /\ Len(c.s) >= 4 /\ AllDigits(SubSeq(c.s, 1, 4))

LeadingYear(c) == DecimalValue(SubSeq(c.s, 1, 4))

\* C4: building_age is 0 for "N/A" and for the empty date, current_year
\* minus the leading year for a date with a 4-digit leading year, and 0 on
\* any parse failure: a non-numeric prefix, a string of fewer than four
\* characters
C4_BuildingAge ==
    Normalized =>
        \A k \in 1..Len(ret.df) :
            LET c == ret.df[k].approval_date
                age == ret.df[k].building_age
            IN  IF HasLeadingYear(c)
                THEN age = Num(CURRENT_YEAR - LeadingYear(c))
                ELSE IsZero(age)

\* x is the quotient a / b
IsQuotient(x, a, b) ==
    /\ IsNumber(x) /\ IsNumber(a) /\ IsNumber(b) /\ b.n # 0
    /\ x.n * b.n * a.d = a.n * b.d * x.d

\* C5: no division by zero: rent_per_m2 is monthly_rent_won / size for
\* size > 0 and 0 otherwise, rent_per_py is monthly_rent_won / size_py for
\* size_py > 0 and 0 otherwise, premium_ratio is premium_won / deposit_won
\* for deposit_won > 0 and 0 otherwise
C5_DivisionGuards ==
    Normalized =>
        \A k \in 1..Len(ret.df) :
            LET r == ret.df[k] IN
            /\ IF RGtZero(r.size)
               THEN IsQuotient(r.rent_per_m2, r.monthly_rent_won, r.size)
               ELSE IsZero(r.rent_per_m2)
            /\ IF RGtZero(r.size_py)
               THEN IsQuotient(r.rent_per_py, r.monthly_rent_won, r.size_py)
               ELSE IsZero(r.rent_per_py)
            /\ IF RGtZero(r.deposit_won)
               THEN IsQuotient(r.premium_ratio, r.premium_won, r.deposit_won)
               ELSE IsZero(r.premium_ratio)
            /\ (IsZero(r.size) => IsZero(r.rent_per_m2) /\ IsZero(r.rent_per_py))
            /\ (IsZero(r.deposit) => IsZero(r.premium_ratio))

\* C5 witness: a row of size 0 with a rent and a row of deposit 0 with a
\* premium in one batch
C5_Witness ==
    /\ Normalized
    /\ Len(ret.df) = 2
    /\ IsZero(ret.df[1].size) /\ RGtZero(ret.df[1].monthlyRent)
    /\ IsZero(ret.df[1].rent_per_m2) /\ IsZero(ret.df[1].rent_per_py)
    /\ IsZero(ret.df[2].deposit) /\ RGtZero(ret.df[2].premium)
    /\ IsZero(ret.df[2].premium_ratio)
    /\ RGtZero(ret.df[2].rent_per_py)

IntegerCell(c) == c.t = "int"

Whole(x) == x.n \div x.d

\* C8: for a row of integer fields the won columns are the raw values
\* times 10000, the two totals are sums of won columns, and
\* deposit_won / 10000 is the deposit again
C8_UnitConversion ==
    Normalized =>
        \A k \in 1..Len(ret.df) :
            LET r == ret.df[k] IN
            ( /\ IsInteger(r.deposit) /\ IsInteger(r.monthlyRent)
              /\ IsInteger(r.premium)
              /\ IntegerCell(r.maint_fee_raw) /\ IntegerCell(r.area_price_raw) )
            =>
            /\ r.deposit_won = Num(Whole(r.deposit) * 10000)
            /\ r.monthly_rent_won = Num(Whole(r.monthlyRent) * 10000)
            /\ r.premium_won = Num(Whole(r.premium) * 10000)
            /\ r.maintenance_fee_won = Num(r.maint_fee_raw.i * 10000)
            /\ r.area_price_won_per_m2 = Num(r.area_price_raw.i * 10000)
            /\ r.total_initial_cost =
                  Num(Whole(r.deposit) * 10000 + Whole(r.premium) * 10000)
            /\ r.monthly_total_cost =
                  Num(Whole(r.monthlyRent) * 10000 + r.maint_fee_raw.i * 10000)
            /\ Whole(r.deposit_won) % 10000 = 0
            /\ Whole(r.deposit_won) \div 10000 = Whole(r.deposit)

\* C8 witness: a row with a deposit, a premium, a rent and a fee
C8_Witness ==
    /\ Normalized
    /\ \E k \in 1..Len(ret.df) :
          /\ ret.df[k].deposit = Num(2) /\ ret.df[k].premium = Num(1)
          /\ ret.df[k].monthlyRent = Num(3) /\ ret.df[k].maint_fee_raw = PyInt(4)
          /\ ret.df[k].total_initial_cost = Num(30000)
          /\ ret.df[k].monthly_total_cost = Num(70000)

====
